---- MODULE Spec2Model ----
(***************************************************************************)
(* Model of the two request handlers of the six-yao divination API:        *)
(*   POST /divine      scripts/simple_api_server.py  (completion upstream, *)
(*                     retry with exponential backoff, degraded results)   *)
(*   POST /api/divine  scripts/doubao_api_server.py  (agent upstream, one  *)
(*                     call, failures raised as HTTP errors)               *)
(* Text is a sequence of tokens, so that f-strings are concatenations.     *)
(* JSON values are records tagged by t: absent, null, str, int, list, obj. *)
(***************************************************************************)
EXTENDS Integers, Sequences, FiniteSets, TLC

VARIABLES COZE_API_KEY, endpoint, request, retry_times, retry, pc, trace,
          response, result, tasks

vars == <<COZE_API_KEY, endpoint, request, retry_times, retry, pc, trace,
          response, result, tasks>>

(* ------------------------------ bounds --------------------------------- *)
MaxRetryTimes == 3
MaxQuestionLen == 2
MaxChoices == 2
MaxMessages == 2
NumTasks == 2

(* --------------------------- JSON values ------------------------------- *)
JAbsent == [t |-> "absent"]
JNull == [t |-> "null"]
JInvalid == [t |-> "invalid"]
JStr(s) == [t |-> "str", v |-> s]
JInt(n) == [t |-> "int", v |-> n]
JList(l) == [t |-> "list", v |-> l]

\* Python truthiness of a JSON value held in a dict: None and "" are falsy.
Truthy(j) ==
    CASE j.t = "str" -> Len(j.v) > 0
      [] j.t = "int" -> j.v # 0
      [] j.t = "list" -> Len(j.v) > 0
      [] OTHER -> FALSE

\* All sequences over S of length 0..n.
SeqsUpTo(S, n) == UNION {[1..k -> S] : k \in 0..n}

\* The last element of a non-empty sequence.
Last(s) == s[Len(s)]

\* t occurs in s as a contiguous run of tokens.
Contains(s, t) ==
    \E i \in 0..(Len(s) - Len(t)) : \A j \in 1..Len(t) : s[i + j] = t[j]

(* ------------------------- request validation -------------------------- *)
\* str.strip(): leading and trailing whitespace removed.
RECURSIVE StripLeft(_)
StripLeft(s) ==
    IF Len(s) > 0 /\ Head(s) = " " THEN StripLeft(Tail(s)) ELSE s

RECURSIVE StripRight(_)
StripRight(s) ==
    IF Len(s) > 0 /\ Last(s) = " " THEN StripRight(SubSeq(s, 1, Len(s) - 1))
    ELSE s

Strip(s) == StripRight(StripLeft(s))

QuestionEmpty_AcceptsBlank(question) == Len(question) = 0

\* `not request.question or not request.question.strip()`
QuestionEmpty(question) == Len(question) = 0 \/ Len(Strip(question)) = 0

NumbersLen == 6

\* `not request.numbers or len(request.numbers) != 6`
NumbersInvalid(numbers) == Len(numbers) = 0 \/ Len(numbers) # NumbersLen

NoKey == [t |-> "null"]

KeyMissing_NoneOnly(key) == key.t = "null"

\* `not COZE_API_KEY`: an unset variable (None) and an empty one are both missing.
KeyMissing(key) == ~Truthy(key)

\* raise HTTPException(status_code=..., detail=...)
HTTPException(status_code, detail) ==
    [kind |-> "HTTPException", status |-> status_code, detail |-> detail]

\* A returned dict: FastAPI sends it as JSON with status 200.
Returned(body) == [kind |-> "returned", status |-> 200, body |-> body]

NoResult == [kind |-> "none"]
NoResponse == [kind |-> "none"]

(* ------------------------------ backoff -------------------------------- *)
RECURSIVE Pow2(_)
Pow2(n) == IF n <= 0 THEN 1 ELSE 2 * Pow2(n - 1)

Backoff_Linear(attempt) == attempt + 1

\* `2**retry` seconds.
Backoff(attempt) == Pow2(attempt)

MoreAttempts_Inclusive(attempt, retries) == attempt <= retries

MoreAttempts_OffByOne(attempt, retries) == attempt + 1 < retries

\* `retry < retry_times`: another attempt may follow this one.
MoreAttempts(attempt, retries) == attempt < retries

(* ------------------------ control outcomes ----------------------------- *)
Return(value) == [ctl |-> "return", value |-> value]
Raise(message) == [ctl |-> "raise", message |-> message]
Sleep(secs) == [ctl |-> "sleep", secs |-> secs]
Continue == [ctl |-> "continue"]

(* ------------------- upstream responses, POST /divine ------------------ *)
PlatformErrorCode == 702242002

Message(content) == [t |-> "obj", content |-> content]
Choice(message) == [t |-> "obj", message |-> message]

ContentVals == {JAbsent, JNull, JStr(<<>>), JStr(<<"y">>), JStr(<<"z">>)}
FirstChoices == {Choice(JAbsent)} \cup {Choice(Message(c)) : c \in ContentVals}
LaterChoices == {Choice(Message(JStr(<<"y">>))), Choice(Message(JStr(<<"z">>)))}
ChoiceLists ==
    {<<>>} \cup {<<f>> \o rest : f \in FirstChoices,
                               rest \in SeqsUpTo(LaterChoices, MaxChoices - 1)}
CodeMsgs == {<<JAbsent, JAbsent>>, <<JInt(0), JAbsent>>,
             <<JInt(PlatformErrorCode), JAbsent>>,
             <<JInt(PlatformErrorCode), JStr(<<"busy">>)>>}
CompletionBodies ==
    {[t |-> "obj", code |-> cm[1], msg |-> cm[2], choices |-> ch] :
        cm \in CodeMsgs,
        ch \in {JAbsent, JNull} \cup {JList(l) : l \in ChoiceLists}}

\* httpx.RequestError subclasses; str(e) may be empty (ReadTimeout).
RequestErrors ==
    {[kind |-> "RequestError", exc |-> "ReadTimeout", msg |-> <<>>],
     [kind |-> "RequestError", exc |-> "ConnectError",
      msg |-> <<"connection refused">>]}

ErrorStatuses == {429, 500, 503}

StatusText(status) ==
    CASE status = 200 -> "200"
      [] status = 429 -> "429"
      [] status = 500 -> "500"
      [] status = 503 -> "503"
      [] OTHER -> "???"

HttpResponse(status, text, json) ==
    [kind |-> "http", status |-> status, text |-> text, json |-> json]

Non200Responses ==
    {HttpResponse(s, <<"upstream error page">>, JInvalid) : s \in ErrorStatuses}

CompletionResponses ==
    {HttpResponse(200, <<"raw">>, b) : b \in CompletionBodies \cup {JInvalid}}

(* --------------------- POST /divine: pure parts ------------------------ *)
Degrade_Raises500(message) ==
    HTTPException(500, JStr(message))

\* The `except Exception` arm: a 200 response carrying success = False.
Degrade(message) ==
    Returned([success |-> FALSE,
              final_result |-> JStr(<<"cannot divine for now: ">> \o message
                               \o <<"\nplease retry later or check the network">>),
              error_detail |-> JStr(message)])

Success(content) == Returned([success |-> TRUE, final_result |-> content])

\* The check of the question and of the credential, in this order.
DivineValidate(question, key) ==
    IF QuestionEmpty(question)
    THEN HTTPException(400, JStr(<<"question must not be empty">>))
    ELSE IF KeyMissing(key)
    THEN HTTPException(500, JStr(<<"backend API key is not configured">>))
    ELSE NoResult

ExtractChoices_NoReturn(json) ==
    LET first == json.choices.v[1] IN
    IF first.message.t = "absent" THEN Raise(<<"'message'">>)
    ELSE IF first.message.content.t = "absent" THEN Raise(<<"'content'">>)
    ELSE Continue

ExtractChoices_LastChoice(json) ==
    LET last == Last(json.choices.v) IN
    IF last.message.t = "absent" THEN Raise(<<"'message'">>)
    ELSE IF last.message.content.t = "absent" THEN Raise(<<"'content'">>)
    ELSE IF Truthy(last.message.content)
    THEN Return(Success(last.message.content))
    ELSE Continue

\* result["choices"][0]["message"]["content"], returned when truthy; a falsy
\* content falls out of the if statement and the for loop goes on.
ExtractChoices(json) ==
    LET first == json.choices.v[1] IN
    IF first.message.t = "absent" THEN Raise(<<"'message'">>)
    ELSE IF first.message.content.t = "absent" THEN Raise(<<"'content'">>)
    ELSE IF Truthy(first.message.content)
    THEN Return(Success(first.message.content))
    ELSE Continue

\* result.get('msg', <unknown error>) inside the f-string.
PlatformFaultText(json) ==
    <<"Coze platform fault: ">> \o
        (IF json.msg.t = "absent" THEN <<"unknown error">>
         ELSE IF json.msg.t = "str" THEN json.msg.v ELSE <<"None">>)

\* The body of `if response.status_code == 200:`.
On200(json) ==
    IF json.t = "invalid" THEN Raise(<<"Expecting value: line 1 column 1">>)
    ELSE IF json.code.t # "absent" /\ json.code # JInt(0)
    THEN Raise(PlatformFaultText(json))
    ELSE IF json.choices.t = "null"
    THEN Raise(<<"object of type 'NoneType' has no len()">>)
    ELSE IF json.choices.t # "absent" /\ Len(json.choices.v) > 0
    THEN ExtractChoices(json)
    ELSE Raise(<<"Coze returned no valid result">>)

\* The `elif retry < retry_times: ... else: raise` arms for a non-200 status.
OnNon200(status, attempt, retries) ==
    IF MoreAttempts(attempt, retries) THEN Sleep(Backoff(attempt))
    ELSE Raise(<<"Coze API returned error status: ", StatusText(status)>>)

\* The `except httpx.RequestError` arm.
OnRequestError(e, attempt, retries) ==
    IF MoreAttempts(attempt, retries) THEN Sleep(Backoff(attempt))
    ELSE Raise(<<"network request failed: ">> \o e.msg)

\* What one loop iteration does with the outcome of its post.
Classify(resp, attempt, retries) ==
    IF resp.kind = "RequestError" THEN OnRequestError(resp, attempt, retries)
    ELSE IF resp.status = 200 THEN On200(resp.json)
    ELSE OnNon200(resp.status, attempt, retries)

AllRetriesFailed == <<"calling the Coze API failed repeatedly, retry later">>

ResponseClass(resp) ==
    IF resp.kind = "RequestError" THEN "RequestError"
    ELSE IF resp.status = 200 THEN "200" ELSE "non200"

(* ----------------- upstream responses, POST /api/divine ---------------- *)
AgentMessage(type, content) == [t |-> "obj", type |-> type, content |-> content]

AgentMessages ==
    {AgentMessage("think", JStr(<<"x">>))} \cup
    {AgentMessage("answer", c) :
        c \in {JAbsent, JStr(<<>>), JStr(<<"early">>), JStr(<<"final">>)}}

AgentBodies ==
    {[t |-> "obj", messages |-> m, content |-> c] :
        m \in {JAbsent} \cup {JList(l) : l \in SeqsUpTo(AgentMessages, MaxMessages)},
        c \in {JAbsent, JStr(<<>>), JStr(<<"top">>)}}

AgentResponses ==
    {HttpResponse(200, <<"raw">>, b) : b \in AgentBodies \cup {JInvalid}}

(* ------------------- POST /api/divine: pure parts ---------------------- *)
AgentSuccess(content) == Returned([success |-> TRUE, result |-> content])

\* The three checks that precede the call, in this order.
AgentValidate(question, numbers, key) ==
    IF QuestionEmpty(question)
    THEN HTTPException(400, JStr(<<"question must not be empty">>))
    ELSE IF NumbersInvalid(numbers)
    THEN HTTPException(400, JStr(<<"enter 6 digits">>))
    ELSE IF KeyMissing(key)
    THEN HTTPException(500, JStr(<<"Coze API key is not configured">>))
    ELSE NoResult

\* msg.get("content", "")
ContentOrEmpty(msg) == IF msg.content.t = "absent" THEN JStr(<<>>) ELSE msg.content

\* `for msg in reversed(result["messages"])`: the content of the last message
\* of type "answer" whose content is truthy, JAbsent when there is none.
RECURSIVE LastAnswer(_)
LastAnswer(messages) ==
    IF Len(messages) = 0 THEN JAbsent
    ELSE LET msg == Last(messages) IN
         IF msg.type = "answer" /\ Truthy(ContentOrEmpty(msg))
         THEN ContentOrEmpty(msg)
         ELSE LastAnswer(SubSeq(messages, 1, Len(messages) - 1))

RECURSIVE FirstAnswer(_)
FirstAnswer(messages) ==
    IF Len(messages) = 0 THEN JAbsent
    ELSE LET msg == Head(messages) IN
         IF msg.type = "answer" /\ Truthy(ContentOrEmpty(msg))
         THEN ContentOrEmpty(msg)
         ELSE FirstAnswer(Tail(messages))

InvalidResult == HTTPException(500, JStr(<<"AI returned an invalid result">>))

ExtractMessages_Forward(json) ==
    IF json.messages.t # "absent" /\ Len(json.messages.v) > 0
    THEN IF FirstAnswer(json.messages.v) # JAbsent
         THEN AgentSuccess(FirstAnswer(json.messages.v))
         ELSE IF json.content.t # "absent" THEN AgentSuccess(json.content)
         ELSE InvalidResult
    ELSE InvalidResult

\* The extraction: the answer message, else the payload's own content field,
\* else an error.
ExtractMessages(json) ==
    IF json.messages.t # "absent" /\ Len(json.messages.v) > 0
    THEN IF LastAnswer(json.messages.v) # JAbsent
         THEN AgentSuccess(LastAnswer(json.messages.v))
         ELSE IF json.content.t # "absent" THEN AgentSuccess(json.content)
         ELSE InvalidResult
    ELSE InvalidResult

\* What the handler makes of the outcome of its single post.
AgentOutcome(resp) ==
    IF resp.kind = "RequestError"
    THEN IF resp.exc = "ReadTimeout"
         THEN HTTPException(504, JStr(<<"AI service timed out, retry later">>))
         ELSE HTTPException(500, [t |-> "obj", success |-> FALSE,
                                  error |-> <<"divination failed: ">> \o resp.msg])
    ELSE IF resp.status = 200
    THEN IF resp.json.t = "invalid"
         THEN HTTPException(500, JStr(<<"API returned a malformed body: ",
                                        "Expecting value: line 1 column 1">>))
         ELSE ExtractMessages(resp.json)
    ELSE HTTPException(resp.status, JStr(<<"AI service error: ">> \o resp.text))

AgentUser_Fixed(numbers) == JStr(<<"user_">>)

\* "user": f"user_{request.numbers}": the numbers serve as the user id.
AgentUser(numbers) == JStr(<<"user_">> \o numbers)

(* ------------------------------ inputs --------------------------------- *)
Questions == SeqsUpTo({" ", "a"}, MaxQuestionLen)
NumbersInputs == {<<>>, <<"1", "2", "3", "4", "5">>,
                  <<"1", "2", "3", "4", "5", "6">>,
                  <<"6", "5", "4", "3", "2", "1">>,
                  <<"1", "2", "3", "4", "5", "6", "7">>}
RetryTimes == (0 - 1)..MaxRetryTimes
Keys == {NoKey, JStr(<<>>), JStr(<<"sk-key">>)}

(* ------------------------------ actions -------------------------------- *)
PostEvent(attempt, user, prompt) ==
    [ev |-> "post", attempt |-> attempt, user |-> user, prompt |-> prompt]
RespEvent(resp) == [ev |-> "resp", class |-> ResponseClass(resp)]
SleepEvent(secs) == [ev |-> "sleep", secs |-> secs]

\* The requests in flight at once, each handled by its own coroutine.
Tasks == 1..NumTasks

\* The locals of one call of a handler before the request arrives.
IdleTask ==
    [endpoint |-> "none", request |-> [question |-> <<>>, numbers |-> <<>>],
     retry_times |-> 0, retry |-> 0, pc |-> "idle", trace |-> <<>>,
     inbox |-> <<>>, result |-> NoResult]

Init ==
    /\ tasks = [i \in Tasks |-> IdleTask]
    /\ COZE_API_KEY \in Keys
    /\ endpoint = "none"
    /\ request = [question |-> <<>>, numbers |-> <<>>]
    /\ retry_times = 0
    /\ retry = 0
    /\ pc = "idle"
    /\ trace = <<>>
    /\ response = NoResponse
    /\ result = NoResult

\* The handler returns or raises: the client gets res.
Finish(tr, res) ==
    /\ pc' = "done"
    /\ result' = res
    /\ trace' = tr
    /\ retry' = retry

\* One iteration of `for retry in range(retry_times + 1)` up to its await.
StartAttempt(tr, attempt, question) ==
    /\ retry' = attempt
    /\ trace' = Append(tr, PostEvent(attempt, JAbsent,
                                     <<"question: ">> \o question \o <<"\ndivine">>))
    /\ pc' = "awaiting"
    /\ result' = result

NextIteration_NoRaise(tr, n) ==
    IF retry + 1 < n + 1
    THEN StartAttempt(tr, retry + 1, request.question)
    ELSE Finish(tr, Returned(JNull))

\* The for loop moves on: the next attempt, or the raise that follows the loop.
NextIteration(tr, n) ==
    IF retry + 1 < n + 1
    THEN StartAttempt(tr, retry + 1, request.question)
    ELSE Finish(tr, Degrade(AllRetriesFailed))

\* POST /divine arrives: validation, then the first attempt's post.
DivineRequest(question, n) ==
    /\ pc = "idle"
    /\ endpoint' = "/divine"
    /\ request' = [question |-> question, numbers |-> <<>>]
    /\ retry_times' = n
    /\ LET v == DivineValidate(question, COZE_API_KEY) IN
       IF v # NoResult THEN Finish(trace, v)
       ELSE IF 0 < n + 1 THEN StartAttempt(trace, 0, question)
       ELSE Finish(trace, Degrade(AllRetriesFailed))
    /\ UNCHANGED <<COZE_API_KEY, tasks, response>>

\* The awaited post of POST /divine completes with resp (or raises it).
DivineResponse(resp) ==
    /\ pc = "awaiting"
    /\ endpoint = "/divine"
    /\ response' = resp
    /\ LET c == Classify(resp, retry, retry_times)
           tr == Append(trace, RespEvent(resp))
       IN CASE c.ctl = "return" -> Finish(tr, c.value)
            [] c.ctl = "raise" -> Finish(tr, Degrade(c.message))
            [] c.ctl = "sleep" ->
                /\ pc' = "sleeping"
                /\ trace' = Append(tr, SleepEvent(c.secs))
                /\ UNCHANGED <<retry, result>>
            [] c.ctl = "continue" -> NextIteration(tr, retry_times)
    /\ UNCHANGED <<COZE_API_KEY, tasks, endpoint, request, retry_times>>

\* asyncio.sleep returns: the loop goes to its next iteration.
DivineWakeUp ==
    /\ pc = "sleeping"
    /\ endpoint = "/divine"
    /\ NextIteration(trace, retry_times)
    /\ UNCHANGED <<COZE_API_KEY, tasks, endpoint, request, retry_times, response>>

\* POST /api/divine arrives: validation, then the single post.
AgentRequest(question, numbers) ==
    /\ pc = "idle"
    /\ endpoint' = "/api/divine"
    /\ request' = [question |-> question, numbers |-> numbers]
    /\ LET v == AgentValidate(question, numbers, COZE_API_KEY) IN
       IF v # NoResult THEN Finish(trace, v)
       ELSE /\ trace' = Append(trace,
                   PostEvent(0, AgentUser(numbers),
                             <<"question: ">> \o question
                                 \o <<"\nnumbers: ">> \o numbers))
            /\ pc' = "awaiting"
            /\ UNCHANGED <<retry, result>>
    /\ UNCHANGED <<COZE_API_KEY, tasks, retry_times, response>>

\* The awaited post of POST /api/divine completes with resp (or raises it).
AgentResponse(resp) ==
    /\ pc = "awaiting"
    /\ endpoint = "/api/divine"
    /\ response' = resp
    /\ Finish(Append(trace, RespEvent(resp)), AgentOutcome(resp))
    /\ UNCHANGED <<COZE_API_KEY, tasks, endpoint, request, retry_times>>

Next ==
    \/ \E q \in Questions, n \in RetryTimes : DivineRequest(q, n)
    \/ \E r \in RequestErrors \cup Non200Responses \cup CompletionResponses :
          DivineResponse(r)
    \/ DivineWakeUp
    \/ \E q \in Questions, d \in NumbersInputs : AgentRequest(q, d)
    \/ \E r \in RequestErrors \cup Non200Responses \cup AgentResponses :
          AgentResponse(r)

Spec == Init /\ [][Next]_vars

\* One upstream outcome for every way a loop iteration can go: the two
\* transport errors, the non-200 statuses, and 200 bodies that are unparsable,
\* carry an error code, lack choices, have no choice, lack the content, have an
\* empty content, or hold an answer.
LiveBody(code, choices) ==
    [t |-> "obj", code |-> code, msg |-> JAbsent, choices |-> choices]
LiveResponses ==
    RequestErrors \cup Non200Responses \cup
    {HttpResponse(200, <<"raw">>, b) :
        b \in {JInvalid,
               LiveBody(JInt(PlatformErrorCode), JAbsent),
               LiveBody(JAbsent, JAbsent),
               LiveBody(JAbsent, JList(<<>>)),
               LiveBody(JAbsent, JList(<<Choice(Message(JAbsent))>>)),
               LiveBody(JAbsent, JList(<<Choice(Message(JStr(<<>>)))>>)),
               LiveBody(JInt(0), JList(<<Choice(Message(JStr(<<"y">>)))>>))}}
LiveQuestions == {<<" ">>, <<"a">>}

\* The awaited post completes: httpx.AsyncClient(timeout=120.0) makes every
\* call return or raise.
DivineAnswered == \E r \in LiveResponses : DivineResponse(r)

LiveNext ==
    \/ \E q \in LiveQuestions, n \in RetryTimes : DivineRequest(q, n)
    \/ DivineAnswered
    \/ DivineWakeUp

\* POST /divine under the event loop's scheduling: a task whose await has
\* completed is resumed, so a pending post is answered within its timeout and
\* a backoff sleep ends.
LiveSpec ==
    /\ Init
    /\ [][LiveNext]_vars
    /\ WF_vars(DivineAnswered)
    /\ WF_vars(DivineWakeUp)

(* ---------------- concurrent requests: one coroutine each -------------- *)
\* The handlers as functions of the locals t of one call: each reads t, the
\* outcome handed to it and the module-level key, nothing else.
TaskFinish(t, tr, res) ==
    [t EXCEPT !.pc = "done", !.result = res, !.trace = tr]

TaskStartAttempt(t, tr, attempt) ==
    [t EXCEPT !.retry = attempt,
              !.trace = Append(tr, PostEvent(attempt, JAbsent,
                            <<"question: ">> \o t.request.question
                                \o <<"\ndivine">>)),
              !.pc = "awaiting"]

TaskNextIteration(t, tr) ==
    IF t.retry + 1 < t.retry_times + 1
    THEN TaskStartAttempt(t, tr, t.retry + 1)
    ELSE TaskFinish(t, tr, Degrade(AllRetriesFailed))

TaskDivineRequest(t, question, n, key) ==
    LET t1 == [t EXCEPT !.endpoint = "/divine",
                        !.request = [question |-> question, numbers |-> <<>>],
                        !.retry_times = n]
        v == DivineValidate(question, key)
    IN IF v # NoResult THEN TaskFinish(t1, t1.trace, v)
       ELSE IF 0 < n + 1 THEN TaskStartAttempt(t1, t1.trace, 0)
       ELSE TaskFinish(t1, t1.trace, Degrade(AllRetriesFailed))

TaskDivineResponse(t, resp) ==
    LET c == Classify(resp, t.retry, t.retry_times)
        t1 == [t EXCEPT !.inbox = Append(t.inbox, resp)]
        tr == Append(t.trace, RespEvent(resp))
    IN CASE c.ctl = "return" -> TaskFinish(t1, tr, c.value)
         [] c.ctl = "raise" -> TaskFinish(t1, tr, Degrade(c.message))
         [] c.ctl = "sleep" ->
               [t1 EXCEPT !.pc = "sleeping",
                          !.trace = Append(tr, SleepEvent(c.secs))]
         [] c.ctl = "continue" -> TaskNextIteration(t1, tr)

TaskWakeUp(t) == TaskNextIteration(t, t.trace)

TaskAgentRequest(t, question, numbers, key) ==
    LET t1 == [t EXCEPT !.endpoint = "/api/divine",
                        !.request = [question |-> question, numbers |-> numbers]]
        v == AgentValidate(question, numbers, key)
    IN IF v # NoResult THEN TaskFinish(t1, t1.trace, v)
       ELSE [t1 EXCEPT !.trace = Append(t1.trace,
                            PostEvent(0, AgentUser(numbers),
                                      <<"question: ">> \o question
                                          \o <<"\nnumbers: ">> \o numbers)),
                       !.pc = "awaiting"]

TaskAgentResponse(t, resp) ==
    TaskFinish([t EXCEPT !.inbox = Append(t.inbox, resp)],
               Append(t.trace, RespEvent(resp)), AgentOutcome(resp))

Runnable_BlockingSleep(i) == \A j \in Tasks : tasks[j].pc # "sleeping"

\* `await asyncio.sleep(...)` and `await client.post(...)` suspend the calling
\* coroutine only: the event loop runs any other task that is ready.
Runnable(i) == TRUE

ConcQuestions == {<<"a">>, <<"a", "a">>}
ConcNumbers == {<<"1", "2", "3", "4", "5", "6">>, <<"6", "5", "4", "3", "2", "1">>}
ConcRetryTimes == {0, 1}
ConcDivineResponses ==
    {[kind |-> "RequestError", exc |-> "ReadTimeout", msg |-> <<>>],
     HttpResponse(500, <<"upstream error page">>, JInvalid),
     HttpResponse(200, <<"raw">>,
         [t |-> "obj", code |-> JAbsent, msg |-> JAbsent,
          choices |-> JList(<<Choice(Message(JStr(<<"y">>)))>>)]),
     HttpResponse(200, <<"raw">>,
         [t |-> "obj", code |-> JAbsent, msg |-> JAbsent,
          choices |-> JList(<<Choice(Message(JStr(<<>>)))>>)])}
ConcAgentResponses ==
    {[kind |-> "RequestError", exc |-> "ReadTimeout", msg |-> <<>>],
     HttpResponse(200, <<"raw">>,
         [t |-> "obj", content |-> JAbsent,
          messages |-> JList(<<AgentMessage("answer", JStr(<<"final">>))>>)])}

ConcDivineRequest(i, question, n) ==
    /\ tasks[i].pc = "idle"
    /\ Runnable(i)
    /\ tasks' = [tasks EXCEPT
                   ![i] = TaskDivineRequest(tasks[i], question, n, COZE_API_KEY)]

ConcDivineResponse(i, resp) ==
    /\ tasks[i].pc = "awaiting"
    /\ tasks[i].endpoint = "/divine"
    /\ Runnable(i)
    /\ tasks' = [tasks EXCEPT ![i] = TaskDivineResponse(tasks[i], resp)]

ConcDivineWakeUp(i) ==
    /\ tasks[i].pc = "sleeping"
    /\ tasks' = [tasks EXCEPT ![i] = TaskWakeUp(tasks[i])]

ConcAgentRequest(i, question, numbers) ==
    /\ tasks[i].pc = "idle"
    /\ Runnable(i)
    /\ tasks' = [tasks EXCEPT
                   ![i] = TaskAgentRequest(tasks[i], question, numbers,
                                           COZE_API_KEY)]

ConcAgentResponse(i, resp) ==
    /\ tasks[i].pc = "awaiting"
    /\ tasks[i].endpoint = "/api/divine"
    /\ Runnable(i)
    /\ tasks' = [tasks EXCEPT ![i] = TaskAgentResponse(tasks[i], resp)]

\* Some step of the coroutine of request i.
TaskStep(i) ==
    \/ \E q \in ConcQuestions, n \in ConcRetryTimes : ConcDivineRequest(i, q, n)
    \/ \E r \in ConcDivineResponses : ConcDivineResponse(i, r)
    \/ ConcDivineWakeUp(i)
    \/ \E q \in ConcQuestions, d \in ConcNumbers : ConcAgentRequest(i, q, d)
    \/ \E r \in ConcAgentResponses : ConcAgentResponse(i, r)

\* The variables of the single-request specification, idle here.
single == <<COZE_API_KEY, endpoint, request, retry_times, retry, pc, trace,
            response, result>>

ConcNext ==
    \/ \E i \in Tasks, q \in ConcQuestions, n \in ConcRetryTimes :
          ConcDivineRequest(i, q, n) /\ UNCHANGED single
    \/ \E i \in Tasks, r \in ConcDivineResponses :
          ConcDivineResponse(i, r) /\ UNCHANGED single
    \/ \E i \in Tasks : ConcDivineWakeUp(i) /\ UNCHANGED single
    \/ \E i \in Tasks, q \in ConcQuestions, d \in ConcNumbers :
          ConcAgentRequest(i, q, d) /\ UNCHANGED single
    \/ \E i \in Tasks, r \in ConcAgentResponses :
          ConcAgentResponse(i, r) /\ UNCHANGED single

ConcSpec == Init /\ [][ConcNext]_vars

(* ===================== observations used by the claims ================= *)
IsPost(e) == e.ev = "post"
IsResp(e) == e.ev = "resp"
IsSleep(e) == e.ev = "sleep"
NumCalls == Len(SelectSeq(trace, IsPost))
NumResps == Len(SelectSeq(trace, IsResp))
Sleeps == SelectSeq(trace, IsSleep)
IsTransient(e) == e.ev = "resp" /\ e.class \in {"RequestError", "non200"}
NumTransient == Len(SelectSeq(trace, IsTransient))
AllTransient == \A i \in 1..Len(trace) : IsResp(trace[i]) => IsTransient(trace[i])

IsBlank(q) == \A i \in 1..Len(q) : q[i] = " "
NoCredential == COZE_API_KEY \in {NoKey, JStr(<<>>)}
Done == pc = "done"
InDivine == endpoint = "/divine"
InAgent == endpoint = "/api/divine"
Accepted == ~IsBlank(request.question) /\ ~NoCredential

IsSuccess(res) == res.kind = "returned" /\ res.body.success
IsDegraded(res) ==
    /\ res.kind = "returned"
    /\ res.status = 200
    /\ ~res.body.success
    /\ DOMAIN res.body = {"success", "final_result", "error_detail"}
NonEmptyStr(j) == j.t = "str" /\ Len(j.v) > 0

Is200(resp) == resp.kind = "http" /\ resp.status = 200
HasErrorCode(resp) ==
    Is200(resp) /\ resp.json.t = "obj" /\ resp.json.code.t = "int"
        /\ resp.json.code.v # 0
NoErrorCode(resp) == Is200(resp) /\ resp.json.t = "obj" /\ ~HasErrorCode(resp)
HasChoices(resp) ==
    NoErrorCode(resp) /\ resp.json.choices.t = "list"
        /\ Len(resp.json.choices.v) > 0
FirstContent(resp) ==
    IF resp.json.choices.v[1].message.t = "absent" THEN JAbsent
    ELSE resp.json.choices.v[1].message.content
GoodCompletion(resp) == HasChoices(resp) /\ NonEmptyStr(FirstContent(resp))

(* ================================ claims =============================== *)

\* C1: in POST /divine with retry_times >= 0, while every upstream attempt so
\* far ended in a transient failure (non-200 status or transport error), the
\* events are post 0, failure, sleep 1, post 1, failure, sleep 2, ...: attempt
\* k is followed by a sleep of 2^k exactly when k < retry_times; when the
\* handler is done there were retry_times + 1 calls and retry_times sleeps.
C1_TransientSchedule ==
    (InDivine /\ retry_times >= 0 /\ Accepted /\ AllTransient) =>
        /\ \A i \in 1..Len(trace) :
              LET k == (i - 1) \div 3 IN
              CASE (i - 1) % 3 = 0 -> IsPost(trace[i]) /\ trace[i].attempt = k
                [] (i - 1) % 3 = 1 -> IsResp(trace[i])
                [] OTHER -> trace[i] = SleepEvent(2^k) /\ k < retry_times
        /\ Done => /\ NumCalls = retry_times + 1
                   /\ Len(Sleeps) = retry_times
                   /\ \A k \in 1..Len(Sleeps) : Sleeps[k].secs = 2^(k - 1)
                   /\ IsResp(Last(trace))
                   /\ IsDegraded(result)

C1_Witness ==
    /\ InDivine /\ Done /\ AllTransient /\ retry_times = 3
    /\ NumCalls = 4
    /\ Len(Sleeps) = 3
    /\ Sleeps[1].secs = 1 /\ Sleeps[2].secs = 2 /\ Sleeps[3].secs = 4
    /\ response.kind = "http" /\ response.status = 500
    /\ IsDegraded(result)

\* The token by which str(e) names the cause of an upstream failure.
CauseMarker(resp) ==
    IF resp.kind = "RequestError" THEN <<"network request failed: ">> \o resp.msg
    ELSE IF resp.status # 200 THEN <<StatusText(resp.status)>>
    ELSE IF resp.json.t = "invalid" THEN <<"Expecting value: line 1 column 1">>
    ELSE IF HasErrorCode(resp)
    THEN IF resp.json.msg.t = "str" THEN resp.json.msg.v ELSE <<"unknown error">>
    ELSE <<"Coze returned no valid result">>

\* The upstream-caused failures C2 lists: a transport error, a non-200
\* status, an unparsable body, an error code, missing or empty choices.
ListedFailure(resp) ==
    \/ resp.kind = "RequestError"
    \/ resp.kind = "http" /\ resp.status # 200
    \/ Is200(resp) /\ resp.json.t = "invalid"
    \/ HasErrorCode(resp)
    \/ NoErrorCode(resp) /\ resp.json.choices.t = "absent"
    \/ NoErrorCode(resp) /\ resp.json.choices.t = "list"
          /\ Len(resp.json.choices.v) = 0

\* C2: in POST /divine a request that passed validation and the credential
\* check never ends in a raised error status; when it ends on an upstream
\* failure (retries exhausted on a non-200 status or a transport error, an
\* error code, an unparsable body, missing or empty choices) the client gets
\* status 200 with success = false, an error_detail naming the cause, and a
\* final_result that contains the error_detail.
C2_FailuresDegrade ==
    (InDivine /\ Done /\ Accepted) =>
        /\ result.kind = "returned" /\ result.status = 200
        /\ (NumResps > 0 /\ ListedFailure(response)) =>
              /\ IsDegraded(result)
              /\ NonEmptyStr(result.body.error_detail)
              /\ Contains(result.body.error_detail.v, CauseMarker(response))
              /\ NonEmptyStr(result.body.final_result)
              /\ Contains(result.body.final_result.v, result.body.error_detail.v)
              /\ result.body.final_result # result.body.error_detail

C2_Witness ==
    /\ InDivine /\ Done /\ Accepted /\ retry_times = 1 /\ NumCalls = 2
    /\ response.kind = "RequestError" /\ response.exc = "ConnectError"
    /\ IsDegraded(result)
    /\ Contains(result.body.error_detail.v, <<"connection refused">>)

\* C3: in every handler, once the upstream call of a request was made and
\* answered, the client gets a transport-success response: never an error
\* status, whatever the upstream did.
C3_UpstreamFailuresNeverSurface ==
    (Done /\ NumResps > 0) => result.kind = "returned" /\ result.status = 200

\* Rejected as invalid input: a 400 raised before any upstream call.
InvalidInput(res) ==
    res.kind = "HTTPException" /\ res.status = 400 /\ NumCalls = 0

\* C4 as stated: in both handlers a blank question is rejected with a 400 and
\* no upstream call, and a request with a non-blank question is never rejected
\* as invalid input.
C4_OnlyBlankQuestionRejected ==
    Done => /\ IsBlank(request.question) => InvalidInput(result)
            /\ ~IsBlank(request.question) => ~InvalidInput(result)

\* C4, amended: in both handlers a blank question is rejected with a 400 and
\* no upstream call, whatever the other inputs are; a request with a non-blank
\* question is never rejected as invalid input by POST /divine, and is rejected
\* as invalid input by POST /api/divine exactly when numbers is not 6
\* characters long.
C4_QuestionAndNumbersRejected ==
    Done => /\ IsBlank(request.question) => InvalidInput(result)
            /\ (~IsBlank(request.question) /\ InDivine) => ~InvalidInput(result)
            /\ (~IsBlank(request.question) /\ InAgent) =>
                  (InvalidInput(result) <=> Len(request.numbers) # 6)

C4_Witness ==
    /\ InAgent /\ Done /\ ~NoCredential
    /\ request.question = <<" ", " ">>
    /\ Len(request.numbers) = 6
    /\ InvalidInput(result)

\* C5: in POST /divine an attempt answered by a 200 with an extractable answer
\* ends the request at once: the result is success = true with that answer,
\* nothing follows the response (no sleep, no further call), a success on
\* attempt k means k + 1 calls, and one sleep was made per transient failure
\* before it (none when the first attempt succeeds).
C5_SuccessStopsLoop ==
    (InDivine /\ NumResps > 0 /\ GoodCompletion(response)) =>
        /\ Done
        /\ IsSuccess(result)
        /\ result.body.final_result = FirstContent(response)
        /\ IsResp(Last(trace))
        /\ NumCalls = retry + 1
        /\ NumResps = NumCalls
        /\ Len(Sleeps) = NumTransient
        /\ retry = 0 => (NumCalls = 1 /\ Len(Sleeps) = 0)

C5_Witness ==
    /\ InDivine /\ Done /\ GoodCompletion(response) /\ IsSuccess(result)
    /\ retry = 2 /\ NumCalls = 3 /\ Len(Sleeps) = 2 /\ NumTransient = 2

\* The content field of a returned body, JAbsent when it has none.
ContentField(body) ==
    IF "final_result" \in DOMAIN body THEN body.final_result
    ELSE IF "result" \in DOMAIN body THEN body.result
    ELSE JAbsent

\* C6: in every handler a returned result is never partially filled:
\* success = true comes with a content field that is a non-empty string, and
\* success = false comes with an error_detail and a content field that is
\* absent or a placeholder message.
C6_ResultNeverPartial ==
    (Done /\ result.kind = "returned") =>
        /\ result.body.success => NonEmptyStr(ContentField(result.body))
        /\ ~result.body.success =>
              /\ "error_detail" \in DOMAIN result.body
              /\ \/ ContentField(result.body) = JAbsent
                 \/ NonEmptyStr(ContentField(result.body))

\* The configuration error: a 500 raised before any upstream call.
ConfigurationError(res) ==
    /\ res.kind = "HTTPException" /\ res.status = 500 /\ NumCalls = 0
    /\ res.detail \in {JStr(<<"backend API key is not configured">>),
                       JStr(<<"Coze API key is not configured">>)}

\* The request passes the checks that precede the credential check.
OtherwiseValid ==
    ~IsBlank(request.question) /\ (InAgent => Len(request.numbers) = 6)

\* C7: in both handlers a request that is otherwise valid ends, when no
\* credential is configured, in the configuration error (status 500, no
\* degraded result, no upstream call), and no request ends in it when the
\* credential is configured.
C7_MissingKeyIs500 ==
    Done => /\ (NoCredential /\ OtherwiseValid) => ConfigurationError(result)
            /\ ~NoCredential => ~ConfigurationError(result)
            /\ ConfigurationError(result) => NumCalls = 0 /\ response = NoResponse

C7_Witness ==
    /\ InDivine /\ Done /\ COZE_API_KEY = JStr(<<>>)
    /\ request.question = <<"a">>
    /\ ConfigurationError(result)

IsAnswer(msg) == msg.type = "answer"
FilledAnswer(msg) == IsAnswer(msg) /\ msg.content.t = "str" /\ Len(msg.content.v) > 0
HasMessages(resp) ==
    Is200(resp) /\ resp.json.t = "obj" /\ resp.json.messages.t = "list"
Msgs == response.json.messages.v

\* C8 as stated: in POST /api/divine, for a 200 payload with a messages
\* sequence, a success result carries the content of the last message of type
\* "answer", and without a message of type "answer" no success result is
\* returned, whatever else the payload holds.
C8_LastAnswerOrFailure ==
    (InAgent /\ Done /\ NumResps > 0 /\ HasMessages(response)) =>
        /\ IsSuccess(result) =>
              \E i \in 1..Len(Msgs) :
                 /\ IsAnswer(Msgs[i])
                 /\ \A j \in (i + 1)..Len(Msgs) : ~IsAnswer(Msgs[j])
                 /\ result = AgentSuccess(Msgs[i].content)
        /\ (\A i \in 1..Len(Msgs) : ~IsAnswer(Msgs[i])) => ~IsSuccess(result)

\* C8, amended: in POST /api/divine, for a 200 payload with a messages
\* sequence, the answer returned is the content of the first message, scanning
\* from the end backward, whose type is "answer" and whose content is not
\* empty; when the sequence is not empty and holds no such message, the
\* payload's own content field, if it has one, is returned as the result with
\* success = true; otherwise the request fails with status 500.
C8_LastFilledAnswerElseContent ==
    (InAgent /\ Done /\ NumResps > 0 /\ HasMessages(response)) =>
        IF \E i \in 1..Len(Msgs) : FilledAnswer(Msgs[i])
        THEN \E i \in 1..Len(Msgs) :
                /\ FilledAnswer(Msgs[i])
                /\ \A j \in (i + 1)..Len(Msgs) : ~FilledAnswer(Msgs[j])
                /\ result = AgentSuccess(Msgs[i].content)
        ELSE IF Len(Msgs) > 0 /\ response.json.content.t # "absent"
        THEN result = AgentSuccess(response.json.content)
        ELSE result.kind = "HTTPException" /\ result.status = 500

C8_Witness ==
    /\ InAgent /\ Done /\ HasMessages(response) /\ Len(Msgs) = 2
    /\ Msgs[1] = AgentMessage("answer", JStr(<<"early">>))
    /\ Msgs[2] = AgentMessage("think", JStr(<<"x">>))
    /\ result = AgentSuccess(JStr(<<"early">>))

\* A 200 payload without an error code from which no answer can be taken:
\* choices missing or empty, or the first choice's content absent or empty.
NoAnswerPayload(resp) ==
    NoErrorCode(resp) /\ ~GoodCompletion(resp)

C10_ErrorCodeRetried ==
    (InDivine /\ NumResps > 0 /\ HasErrorCode(response) /\ IsResp(Last(trace))) =>
        retry = retry_times

\* A 200 response that is malformed: an unparsable body, or a body without an
\* error code from which no answer can be taken.
Malformed200(resp) ==
    \/ Is200(resp) /\ resp.json.t = "invalid"
    \/ NoAnswerPayload(resp)

\* C11: in POST /divine a malformed 200 response (unparsable body, missing or
\* empty choices, missing message or content, empty content) is never retried:
\* the request ends on the attempt that receives it.
C11_MalformedNotRetried ==
    (InDivine /\ NumResps > 0 /\ Malformed200(response)) => Done

\* The events strictly between positions i and j of the trace.
Between(i, j) == SubSeq(trace, i + 1, j - 1)

\* C12: in POST /divine, between two consecutive upstream calls of a request
\* (attempt k, then attempt k + 1) there is exactly one backoff sleep, of 2^k
\* time units, whatever outcome of attempt k led to the next attempt.
C12_BackoffBetweenCalls ==
    InDivine =>
        \A i, j \in 1..Len(trace) :
            (/\ i < j /\ IsPost(trace[i]) /\ IsPost(trace[j])
             /\ \A m \in (i + 1)..(j - 1) : ~IsPost(trace[m])) =>
                /\ trace[j].attempt = trace[i].attempt + 1
                /\ SelectSeq(Between(i, j), IsSleep)
                      = <<SleepEvent(2^(trace[i].attempt))>>

\* C14: in POST /divine, whatever the value of retry_times, a request that
\* passed validation and the credential check gets its result only after at
\* least one upstream call.
C14_AtLeastOneAttempt ==
    (InDivine /\ Done /\ Accepted) => NumCalls >= 1

\* C15: in POST /divine, when all retry_times + 1 attempts were made without a
\* success, the error_detail of the degraded result names the outcome of the
\* last attempt (its status code, its transport error, or the defect of its
\* response) and is not the generic message that follows the loop.
C15_LastErrorDetail ==
    (/\ InDivine /\ Done /\ Accepted /\ retry_times >= 0
     /\ NumCalls = retry_times + 1 /\ ~IsSuccess(result)) =>
        /\ IsDegraded(result)
        /\ result.body.error_detail.v # AllRetriesFailed
        /\ ListedFailure(response) =>
              Contains(result.body.error_detail.v, CauseMarker(response))

\* C18: in POST /divine with retry_times >= 0, whatever the upstream answers,
\* a request makes at most retry_times + 1 upstream calls and at most
\* retry_times backoff sleeps, and no sleep lasts longer than
\* 2^(retry_times - 1) time units.
C18_CallsAndSleepsBounded ==
    (InDivine /\ retry_times >= 0) =>
        /\ NumCalls <= retry_times + 1
        /\ Len(Sleeps) <= retry_times
        /\ \A k \in 1..Len(Sleeps) : Sleeps[k].secs <= 2^(retry_times - 1)

C18_Witness ==
    /\ InDivine /\ Done /\ retry_times = 3
    /\ NumCalls = 4 /\ Len(Sleeps) = 3 /\ Sleeps[3].secs = 4
    /\ Is200(response)

\* The outcomes a request may end in: an input or configuration error raised
\* before any call, a success, or a degraded result.
TerminalOutcome(res) ==
    \/ InvalidInput(res)
    \/ ConfigurationError(res)
    \/ /\ res.kind = "returned"
       /\ "success" \in DOMAIN res.body
       /\ (IsSuccess(res) \/ IsDegraded(res))

\* C13: every request to POST /divine, for every retry_times and every
\* sequence of upstream outcomes, eventually ends, in exactly one terminal
\* outcome (success, degraded, or an input or configuration error): calls are
\* made only after validation passed, the result exists exactly when the
\* request has ended, and once it has ended nothing more happens (no further
\* call, no sleep, no second result).
C13_OneTerminalOutcome ==
    /\ (InDivine ~> (InDivine /\ Done))
    /\ [](InDivine => /\ NumCalls > 0 => Accepted
                      /\ Done <=> result # NoResult
                      /\ Done => TerminalOutcome(result)
                      /\ pc \in {"awaiting", "sleeping", "done"})
    /\ [][(InDivine /\ Done) => UNCHANGED vars]_vars

C13_Witness ==
    /\ InDivine /\ Done /\ retry_times = 2 /\ NumCalls = 3 /\ Len(Sleeps) = 1
    /\ IsDegraded(result)
    /\ result.body.error_detail = JStr(AllRetriesFailed)

(* ------------------------- concurrent requests ------------------------- *)
TaskPosts(i) == SelectSeq(tasks[i].trace, IsPost)
TaskSleeps(i) == SelectSeq(tasks[i].trace, IsSleep)

\* The request of task i as it stands right after its arrival.
Arrived(t) ==
    IF t.endpoint = "/divine"
    THEN TaskDivineRequest(IdleTask, t.request.question, t.retry_times,
                           COZE_API_KEY)
    ELSE TaskAgentRequest(IdleTask, t.request.question, t.request.numbers,
                          COZE_API_KEY)

\* The handler run alone from t on the upstream outcomes resps, in order.
RECURSIVE RunAlone(_, _)
RunAlone(t, resps) ==
    IF t.pc = "sleeping" THEN RunAlone(TaskWakeUp(t), resps)
    ELSE IF t.pc = "awaiting" /\ Len(resps) > 0
    THEN RunAlone(IF t.endpoint = "/divine"
                  THEN TaskDivineResponse(t, Head(resps))
                  ELSE TaskAgentResponse(t, Head(resps)),
                  Tail(resps))
    ELSE t

\* C16: with several requests in flight, interleaved at the awaits, no step
\* writes the shared configuration; a step of one request leaves the locals of
\* every other request alone; the attempts of a request are numbered 0, 1, ...
\* in its own trace and each of its sleeps lasts 2^k for its own attempt k
\* that precedes it, k below its own retry_times; a finished request has the result it would have
\* if run alone on its own inputs and the responses to its own calls; and a
\* request that has not finished can always take its next step, whatever the
\* others are doing (sleeping in backoff or awaiting a response).
C16_RequestsIndependent ==
    /\ [][COZE_API_KEY' = COZE_API_KEY]_vars
    /\ [][\A i \in Tasks : tasks'[i] # tasks[i] =>
              \A j \in Tasks \ {i} : tasks'[j] = tasks[j]]_vars
    /\ [](\A i \in Tasks :
            /\ \A k \in 1..Len(TaskPosts(i)) : TaskPosts(i)[k].attempt = k - 1
            /\ \A m \in 1..Len(tasks[i].trace) :
                  IsSleep(tasks[i].trace[m]) =>
                      /\ m >= 3 /\ IsPost(tasks[i].trace[m - 2])
                      /\ tasks[i].trace[m].secs
                            = 2^(tasks[i].trace[m - 2].attempt)
                      /\ tasks[i].trace[m - 2].attempt < tasks[i].retry_times
            /\ tasks[i].pc = "done" =>
                  tasks[i] = RunAlone(Arrived(tasks[i]), tasks[i].inbox)
            /\ tasks[i].pc # "done" => ENABLED TaskStep(i))

C16_Witness ==
    /\ tasks[1].pc = "sleeping" /\ tasks[1].endpoint = "/divine"
    /\ tasks[2].pc = "done" /\ tasks[2].endpoint = "/divine"
    /\ tasks[2].retry = 1 /\ Len(TaskSleeps(2)) = 1
    /\ IsSuccess(tasks[2].result)

BothPosted(i, j) ==
    /\ i # j
    /\ tasks[i].endpoint = "/api/divine" /\ tasks[j].endpoint = "/api/divine"
    /\ Len(TaskPosts(i)) = 1 /\ Len(TaskPosts(j)) = 1

\* C17 as stated: in POST /api/divine any two distinct requests are sent
\* upstream with different user identifiers.
C17_UserIdsDistinct ==
    \A i, j \in Tasks :
        BothPosted(i, j) => TaskPosts(i)[1].user # TaskPosts(j)[1].user

\* C17, amended: in POST /api/divine the user identifier sent upstream is
\* "user_" followed by the request's numbers value: two requests are sent with
\* different user identifiers exactly when their numbers values differ,
\* whatever their questions are.
C17_UserIdFromNumbers ==
    \A i, j \in Tasks :
        BothPosted(i, j) =>
            /\ TaskPosts(i)[1].user = JStr(<<"user_">> \o tasks[i].request.numbers)
            /\ (TaskPosts(i)[1].user # TaskPosts(j)[1].user
                   <=> tasks[i].request.numbers # tasks[j].request.numbers)

C17_Witness ==
    /\ BothPosted(1, 2)
    /\ tasks[1].request.question # tasks[2].request.question
    /\ tasks[1].request.numbers # tasks[2].request.numbers
    /\ TaskPosts(1)[1].user # TaskPosts(2)[1].user

====
